---- MODULE Spec2Model ----
(***************************************************************************)
(* Model of semifractal.py: the rule150 cellular-automaton rules, the row  *)
(* generator, the four-way rotated grid assembly and the Grid buffer.      *)
(*                                                                         *)
(* Python values of mixed type (None / int / str) are records with a type  *)
(* tag.  Python lists are sequences; Python index k is TLA+ index k + 1.   *)
(* A str is the sequence of the ordinals of its characters.                *)
(***************************************************************************)
EXTENDS Integers, Sequences, FiniteSets, TLC

VARIABLES
    pc,            \* position of the calling program
    random_state,  \* state of the process-wide `random` module
    seed,          \* Generator.seed
    rule,          \* Generator.rule (by name)
    n,             \* argument n of create_grid / generate
    grid,          \* the Grid object under construction / returned
    gen,           \* frame of the Python generator made by generate(n)
    rows,          \* rows the generator has yielded so far, in order
    i,             \* inner loop position of create_grid (enumerate(row))
    rot,           \* which of the four grid.set calls of a cell is next
    last_set,      \* coordinates passed to the most recent grid.set call
    error,         \* exception that ended the call, "none" if none
    shown,         \* the grid a renderer kept (PygameRenderer.grid)
    call,          \* the most recent direct call of a rule
    access         \* the most recent direct Grid.get / Grid.set call

vars == <<pc, random_state, seed, rule, n, grid, gen, rows, i, rot,
          last_set, error, shown, call, access>>

----------------------------------------------------------------------------
(* Bounds of the model *)

\* create_grid / generate are called with n in -NegN .. MaxN
MaxN == 3
NegN == 1
\* an unbounded generate() is pulled at most MaxRows times
MaxRows == 4
\* Grid(x, y) is constructed directly with x, y in 0 .. MaxDim
MaxDim == 2
\* number of states of the modelled pseudo-random source
PrngMod == 2001

----------------------------------------------------------------------------
(* Python values *)

None == [type |-> "NoneType", int |-> 0, str |-> <<>>]
PyInt(k) == [type |-> "int", int |-> k, str |-> <<>>]
PyStr(s) == [type |-> "str", int |-> 0, str |-> s]

\* list indexing: 0 <= k < len, or -len <= k < 0 counted from the end;
\* 0 stands for IndexError
PyIndex(len, k) ==
    IF 0 <= k /\ k < len THEN k + 1
    ELSE IF k < 0 /\ -len <= k THEN len + k + 1
    ELSE 0

\* xrange(k): empty when k <= 0
XRangeLen(k) == IF k > 0 THEN k ELSE 0

----------------------------------------------------------------------------
(* The `random` module: a deterministic generator whose draw sequence is a *)
(* function of the state it was last seeded to and the number of draws.    *)

RandomStep(s) == (5 * s + 1) % PrngMod

\* random.seed(a) ignoring the state it replaces
RandomSeedKeep(s, a) == s

\* random.seed(a): the new state depends on a alone
RandomSeed(s, a) == a % PrngMod

\* the values random.randint(a, b) can return: both ends included
RandintValues(a, b) == a .. b

\* random.randint(a, b) from state s: the value drawn, the new state, and
\* the values the draw is taken from
Randint(s, a, b) ==
    LET s2 == RandomStep(s)
        vs == RandintValues(a, b)
    IN  [value |-> a + (s2 % Cardinality(vs)), state |-> s2, values |-> vs]

----------------------------------------------------------------------------
(* class Rules *)

rule150BlackNoTTT ==
    << <<TRUE, FALSE, FALSE>>, <<FALSE, TRUE, FALSE>>, <<FALSE, FALSE, TRUE>> >>

rule150Black ==
    << <<TRUE, FALSE, FALSE>>, <<FALSE, TRUE, FALSE>>, <<FALSE, FALSE, TRUE>>,
       <<TRUE, TRUE, TRUE>> >>

\* `above in Rules.rule150Black`
rule150(above) == \E k \in 1..Len(rule150Black) : rule150Black[k] = above

\* result, new random state, number of draws consumed, the draw and the
\* values it was taken from
rule150randomized(above, s) ==
    IF rule150(above)
    THEN LET d == Randint(s, 0, 2000)
         IN  [result |-> d.value # 0, state |-> d.state, draws |-> 1,
              draw |-> d.value, values |-> d.values]
    ELSE [result |-> FALSE, state |-> s, draws |-> 0, draw |-> 0, values |-> {}]

RuleNames == {"rule150", "rule150randomized"}

\* self.rule(above)
ApplyRule(r, above, s) ==
    IF r = "rule150"
    THEN [result |-> rule150(above), state |-> s, draws |-> 0, draw |-> 0,
          values |-> {}]
    ELSE rule150randomized(above, s)

----------------------------------------------------------------------------
(* class Generator *)

\* number of characters of str(k) for an ordinal k
DecLen(k) == IF k < 10 THEN 1 ELSE IF k < 100 THEN 2 ELSE IF k < 1000 THEN 3 ELSE 4

Pow10(k) == IF k = 1 THEN 10 ELSE IF k = 2 THEN 100 ELSE IF k = 3 THEN 1000 ELSE 10000

\* int(''.join([str(ord(x)) for x in chars])), for a non-empty chars
RECURSIVE JoinOrds(_)
JoinOrds(chars) ==
    IF chars = <<>> THEN 0
    ELSE LET m == Len(chars)
             o == chars[m]
         IN  JoinOrds(SubSeq(chars, 1, m - 1)) * Pow10(DecLen(o)) + o

\* the lambda to_int on the characters of str(item); int('') is a ValueError
to_int(chars) ==
    IF chars = <<>> THEN [ok |-> FALSE, val |-> 0]
    ELSE [ok |-> TRUE, val |-> JoinOrds(chars)]

\* _generate_seed(seed); now is str(time.time())
generate_seed(sd, now) ==
    IF sd = None THEN to_int(now)
    ELSE IF sd.type = "int" THEN [ok |-> TRUE, val |-> sd.int]
    ELSE to_int(sd.str)

\* _above: the row with two False cells put on each side
Padded(row) == <<FALSE, FALSE>> \o row \o <<FALSE, FALSE>>

\* _above with one slice too few
AboveShort(row) ==
    LET p == Padded(row)
    IN  [k \in 1..XRangeLen(Len(p) - 3) |-> SubSeq(p, k, k + 2)]

\* _above: one slice [k : k + 3] for each k in range(len(previous_row) - 2)
Above(row) ==
    LET p == Padded(row)
    IN  [k \in 1..XRangeLen(Len(p) - 2) |-> SubSeq(p, k, k + 2)]

\* the list comprehension of _calculate_row, left to right, threading the
\* random state through the rule calls
RECURSIVE EvalWindows(_, _, _, _, _)
EvalWindows(r, ws, k, acc, s) ==
    IF k > Len(ws) THEN [row |-> acc, state |-> s]
    ELSE LET res == ApplyRule(r, ws[k], s)
         IN  EvalWindows(r, ws, k + 1, Append(acc, res.result), res.state)

calculate_row(r, previous_row, s) == EvalWindows(r, Above(previous_row), 1, <<>>, s)

\* the frame of generate(n) before its first next()
NewGen(cnt) == [n |-> cnt, row |-> <<>>, started |-> FALSE, it |-> 0, done |-> FALSE]

\* one next() on generate(n): the frame after it, whether a row was yielded
\* (gen.row) or the generator ended, and the random state
GenNext(g, r, s) ==
    IF ~g.started
    THEN [gen |-> [g EXCEPT !.started = TRUE, !.row = <<TRUE>>],
          yielded |-> TRUE, state |-> s]
    ELSE IF g.n = None \/ g.it < XRangeLen(g.n.int - 1)
    THEN LET c == calculate_row(r, g.row, s)
         IN  [gen |-> [g EXCEPT !.row = c.row, !.it = g.it + 1],
              yielded |-> TRUE, state |-> c.state]
    ELSE [gen |-> [g EXCEPT !.done = TRUE], yielded |-> FALSE, state |-> s]

----------------------------------------------------------------------------
(* class Grid *)

\* Grid.__init__(x, y, seed=None)
NewGrid(x, y) ==
    [width |-> x, height |-> y,
     center |-> <<x \div 2, y \div 2>>,
     seed |-> None,
     array |-> [r \in 1..XRangeLen(y) |-> [c \in 1..XRangeLen(x) |-> FALSE]]]

NoGrid == NewGrid(0, 0)

\* Grid.get(x, y): self.array[y][x]
GridGet(g, x, y) ==
    LET r == PyIndex(Len(g.array), y)
        c == IF r = 0 THEN 0 ELSE PyIndex(Len(g.array[r]), x)
    IN  IF r = 0 \/ c = 0 THEN [ok |-> FALSE, value |-> FALSE]
        ELSE [ok |-> TRUE, value |-> g.array[r][c]]

\* Grid.set indexing the array as self.array[x][y]
GridSetSwapped(g, x, y, value) ==
    LET r == PyIndex(Len(g.array), x)
        c == IF r = 0 THEN 0 ELSE PyIndex(Len(g.array[r]), y)
    IN  IF r = 0 \/ c = 0 THEN [ok |-> FALSE, grid |-> g]
        ELSE [ok |-> TRUE, grid |-> [g EXCEPT !.array[r][c] = value]]

\* Grid.set(x, y, value): self.array[y][x] = value
GridSet(g, x, y, value) ==
    LET r == PyIndex(Len(g.array), y)
        c == IF r = 0 THEN 0 ELSE PyIndex(Len(g.array[r]), x)
    IN  IF r = 0 \/ c = 0 THEN [ok |-> FALSE, grid |-> g]
        ELSE [ok |-> TRUE, grid |-> [g EXCEPT !.array[r][c] = value]]

----------------------------------------------------------------------------
(* The calling program *)

\* seeds handed to Generator(seed=...): None, ints, and strs: "(\x00"
\* (ordinals 40, 0), "1" (ordinal 49) and the empty string
Seeds == {None, PyInt(7), PyInt(400), PyStr(<<40, 0>>), PyStr(<<49>>), PyStr(<<>>)}

\* str(time.time()) at the moment of the call: "1.5" or "2.0"
Times == {<<49, 46, 53>>, <<50, 46, 48>>}

Counts == {PyInt(k) : k \in (0 - NegN)..MaxN}

NoCall == [fn |-> "none", above |-> <<>>, result |-> FALSE, draws |-> 0,
           draw |-> 0, values |-> {}]

NoAccess == [op |-> "none", x |-> 0, y |-> 0, ok |-> TRUE, value |-> FALSE,
             before |-> <<>>]

NoShown == [valid |-> FALSE, seed |-> None, rule |-> "rule150", n |-> None,
            grid |-> NoGrid]

NoSet == [calls |-> 0, x |-> 0, y |-> 0]

\* the random module was seeded by the interpreter at import: any state
InitialRandomStates == {0, 400, PrngMod - 1}

Init ==
    /\ pc = "idle"
    /\ random_state \in InitialRandomStates
    /\ seed = None
    /\ rule = "rule150"
    /\ n = None
    /\ grid = NoGrid
    /\ gen = NewGen(None)
    /\ rows = <<>>
    /\ i = 0
    /\ rot = 0
    /\ last_set = NoSet
    /\ error = "none"
    /\ shown = NoShown
    /\ call = NoCall
    /\ access = NoAccess

\* the row the inner loop of create_grid is walking
CurRow == IF rows = <<>> THEN <<>> ELSE rows[Len(rows)]

\* the four grid.set targets of an active cell, the fourth repeating the third
RotationThree(k, cx, cy, raw_x, raw_y) ==
    IF k = 0 THEN <<cx + raw_x, cy + raw_y>>
    ELSE IF k = 1 THEN <<cx - raw_x, cy - raw_y>>
    ELSE <<cx - raw_y, cy + raw_x>>

\* the four grid.set targets of an active cell with raw_y left at i
RotationShifted(k, cx, cy, raw_x, raw_y) ==
    LET ry == raw_y + raw_x
    IN  IF k = 0 THEN <<cx + raw_x, cy + ry>>
        ELSE IF k = 1 THEN <<cx - raw_x, cy - ry>>
        ELSE IF k = 2 THEN <<cx - ry, cy + raw_x>>
        ELSE <<cx + ry, cy - raw_x>>

\* the four grid.set targets of an active cell, in the order of the calls
Rotation(k, cx, cy, raw_x, raw_y) ==
    IF k = 0 THEN <<cx + raw_x, cy + raw_y>>
    ELSE IF k = 1 THEN <<cx - raw_x, cy - raw_y>>
    ELSE IF k = 2 THEN <<cx - raw_y, cy + raw_x>>
    ELSE <<cx + raw_y, cy - raw_x>>

\* Generator(seed=sd, rule=r)(cnt) up to the first next() of the for loop
CreateGrid(sd, r, cnt, now) ==
    /\ pc = "idle"
    /\ LET size == cnt.int * 2 - 1
           g0 == NewGrid(size, size)
           cs == generate_seed(sd, now)
       IN  /\ seed' = sd
           /\ rule' = r
           /\ n' = cnt
           /\ gen' = NewGen(cnt)
           /\ IF cs.ok
              THEN /\ grid' = [g0 EXCEPT !.seed = PyInt(cs.val)]
                   /\ random_state' = RandomSeed(random_state, cs.val)
                   /\ pc' = "loop"
                   /\ error' = "none"
              ELSE /\ grid' = g0
                   /\ random_state' = random_state
                   /\ pc' = "failed"
                   /\ error' = "ValueError"
    /\ rows' = <<>>
    /\ i' = 0
    /\ rot' = 0
    /\ last_set' = NoSet
    /\ UNCHANGED <<shown, call, access>>

\* the for loop of create_grid asks the generator for its next row
NextRow ==
    /\ pc = "loop"
    /\ i = Len(CurRow)
    /\ LET r == GenNext(gen, rule, random_state)
       IN  /\ gen' = r.gen
           /\ random_state' = r.state
           /\ IF r.yielded
              THEN /\ rows' = Append(rows, r.gen.row)
                   /\ pc' = "loop"
              ELSE /\ rows' = rows
                   /\ pc' = "returned"
    /\ i' = 0
    /\ rot' = 0
    /\ UNCHANGED <<seed, rule, n, grid, last_set, error, shown, call, access>>

\* one of the four grid.set calls for the active cell i of the current row
SetCell ==
    /\ pc = "loop"
    /\ i < Len(CurRow)
    /\ CurRow[i + 1]
    /\ LET index == Len(rows) - 1
           raw_x == index
           raw_y == i - index
           t == Rotation(rot, grid.center[1], grid.center[2], raw_x, raw_y)
           res == GridSet(grid, t[1], t[2], TRUE)
       IN  /\ last_set' = [calls |-> last_set.calls + 1, x |-> t[1], y |-> t[2]]
           /\ grid' = res.grid
           /\ IF res.ok
              THEN /\ pc' = "loop"
                   /\ error' = "none"
                   /\ IF rot = 3
                      THEN i' = i + 1 /\ rot' = 0
                      ELSE i' = i /\ rot' = rot + 1
              ELSE /\ pc' = "failed"
                   /\ error' = "IndexError"
                   /\ UNCHANGED <<i, rot>>
    /\ UNCHANGED <<random_state, seed, rule, n, gen, rows, shown, call, access>>

\* an inactive cell: the inner loop moves on
SkipCell ==
    /\ pc = "loop"
    /\ i < Len(CurRow)
    /\ ~CurRow[i + 1]
    /\ i' = i + 1
    /\ UNCHANGED <<pc, random_state, seed, rule, n, grid, gen, rows, rot,
                   last_set, error, shown, call, access>>

\* the caller renders the returned grid (the renderer keeps it) or drops it;
\* the locals of the finished call are gone
Render(keep) ==
    /\ pc = "returned"
    /\ shown' = IF keep
                THEN [valid |-> TRUE, seed |-> seed, rule |-> rule, n |-> n,
                      grid |-> grid]
                ELSE shown
    /\ pc' = "idle"
    /\ seed' = None
    /\ rule' = "rule150"
    /\ n' = None
    /\ grid' = NoGrid
    /\ gen' = NewGen(None)
    /\ rows' = <<>>
    /\ i' = 0
    /\ rot' = 0
    /\ last_set' = NoSet
    /\ UNCHANGED <<random_state, error, call, access>>

Next ==
    \/ \E sd \in Seeds, r \in RuleNames, cnt \in Counts, now \in Times :
           CreateGrid(sd, r, cnt, now)
    \/ NextRow
    \/ SetCell
    \/ SkipCell
    \/ \E keep \in BOOLEAN : Render(keep)

Spec == Init /\ [][Next]_vars

----------------------------------------------------------------------------
(* Rows taken straight from Generator.generate, as test_rows does *)

RowCounts == Counts \cup {None}

\* g = Generator(rule=r); g.generate(cnt): the generator object is made,
\* none of its body has run
CallGenerate(r, cnt) ==
    /\ pc = "idle"
    /\ pc' = "consuming"
    /\ rule' = r
    /\ n' = cnt
    /\ gen' = NewGen(cnt)
    /\ rows' = <<>>
    /\ UNCHANGED <<random_state, seed, grid, i, rot, last_set, error, shown,
                   call, access>>

\* the consumer's for loop pulls the next row; an unbounded generator is
\* pulled at most MaxRows times
PullRow ==
    /\ pc = "consuming"
    /\ Len(rows) < MaxRows \/ gen.n # None
    /\ LET r == GenNext(gen, rule, random_state)
       IN  /\ gen' = r.gen
           /\ random_state' = r.state
           /\ IF r.yielded
              THEN /\ rows' = Append(rows, r.gen.row)
                   /\ pc' = "consuming"
              ELSE /\ rows' = rows
                   /\ pc' = "exhausted"
    /\ UNCHANGED <<seed, rule, n, grid, i, rot, last_set, error, shown, call,
                   access>>

\* the consumer's loop has ended and the consumer returns
FinishRows ==
    /\ pc = "exhausted"
    /\ pc' = "idle"
    /\ rule' = "rule150"
    /\ n' = None
    /\ gen' = NewGen(None)
    /\ rows' = <<>>
    /\ UNCHANGED <<random_state, seed, grid, i, rot, last_set, error, shown,
                   call, access>>

NextRows ==
    \/ \E r \in RuleNames, cnt \in RowCounts : CallGenerate(r, cnt)
    \/ PullRow
    \/ FinishRows

SpecRows == Init /\ [][NextRows]_vars

----------------------------------------------------------------------------
(* The rules called on their own *)

Triples == {<<a, b, c>> : a \in BOOLEAN, b \in BOOLEAN, c \in BOOLEAN}

InitRules ==
    /\ pc = "idle"
    /\ random_state \in 0..(PrngMod - 1)
    /\ seed = None
    /\ rule = "rule150"
    /\ n = None
    /\ grid = NoGrid
    /\ gen = NewGen(None)
    /\ rows = <<>>
    /\ i = 0
    /\ rot = 0
    /\ last_set = NoSet
    /\ error = "none"
    /\ shown = NoShown
    /\ call = NoCall
    /\ access = NoAccess

\* Rules.rule150(above)
CallRule150(above) ==
    /\ call' = [fn |-> "rule150", above |-> above, result |-> rule150(above),
                draws |-> 0, draw |-> 0, values |-> {}]
    /\ UNCHANGED <<pc, random_state, seed, rule, n, grid, gen, rows, i, rot,
                   last_set, error, shown, access>>

\* Rules.rule150randomized(above)
CallRule150Randomized(above) ==
    /\ LET res == rule150randomized(above, random_state)
       IN  /\ call' = [fn |-> "rule150randomized", above |-> above,
                       result |-> res.result, draws |-> res.draws,
                       draw |-> res.draw, values |-> res.values]
           /\ random_state' = res.state
    /\ UNCHANGED <<pc, seed, rule, n, grid, gen, rows, i, rot, last_set, error,
                   shown, access>>

NextRules ==
    \/ \E above \in Triples : CallRule150(above)
    \/ \E above \in Triples : CallRule150Randomized(above)

SpecRules == InitRules /\ [][NextRules]_vars

----------------------------------------------------------------------------
(* A Grid used on its own *)

Coords == (0 - MaxDim - 1)..(MaxDim + 1)

\* Grid(x, y)
ConstructGrid(x, y) ==
    /\ pc = "idle"
    /\ pc' = "grid"
    /\ grid' = NewGrid(x, y)
    /\ UNCHANGED <<random_state, seed, rule, n, gen, rows, i, rot, last_set,
                   error, shown, call, access>>

\* grid.get(x, y)
DirectGet(x, y) ==
    /\ pc = "grid"
    /\ LET res == GridGet(grid, x, y)
       IN  access' = [op |-> "get", x |-> x, y |-> y, ok |-> res.ok,
                      value |-> res.value, before |-> grid.array]
    /\ UNCHANGED <<pc, random_state, seed, rule, n, grid, gen, rows, i, rot,
                   last_set, error, shown, call>>

\* grid.set(x, y, value)
DirectSet(x, y, value) ==
    /\ pc = "grid"
    /\ LET res == GridSet(grid, x, y, value)
       IN  /\ access' = [op |-> "set", x |-> x, y |-> y, ok |-> res.ok,
                         value |-> value, before |-> grid.array]
           /\ grid' = res.grid
    /\ UNCHANGED <<pc, random_state, seed, rule, n, gen, rows, i, rot,
                   last_set, error, shown, call>>

NextGrid ==
    \/ \E x \in 0..MaxDim, y \in 0..MaxDim : ConstructGrid(x, y)
    \/ \E x \in Coords, y \in Coords : DirectGet(x, y)
    \/ \E x \in Coords, y \in Coords, value \in BOOLEAN : DirectSet(x, y, value)

SpecGrid == Init /\ [][NextGrid]_vars

----------------------------------------------------------------------------
(* Properties *)

\* number of true cells of a neighbourhood
CountTrue(t) == Cardinality({k \in 1..Len(t) : t[k]})

Odd(t) == CountTrue(t) % 2 = 1

\* cell (x, y) of the grid, for 0 <= x < width and 0 <= y < height
Cell(x, y) == grid.array[y + 1][x + 1]

\* a call of create_grid(n) is in progress, has returned or has failed
Assembling == pc \in {"loop", "returned", "failed"} /\ n # None

\* C1: for n >= 1, create_grid(n) with rule150 returns a grid of width and
\* height 2n-1 whose content is unchanged by the quarter turn about
\* (n-1, n-1): get(x, y) = get(cx - (y - cy), cy + (x - cx)) for every cell.
C1_RotationInvariant ==
    (pc = "returned" /\ rule = "rule150" /\ n.int >= 1) =>
        LET size == 2 * n.int - 1
            cx == n.int - 1
            cy == n.int - 1
        IN  /\ grid.width = size
            /\ grid.height = size
            /\ grid.center = <<cx, cy>>
            /\ Len(grid.array) = size
            /\ \A y \in 0..(size - 1) : Len(grid.array[y + 1]) = size
            /\ \A x \in 0..(size - 1), y \in 0..(size - 1) :
                   LET tx == cx - (y - cy)
                       ty == cy + (x - cx)
                   IN  /\ GridGet(grid, x, y).ok
                       /\ tx \in 0..(size - 1)
                       /\ ty \in 0..(size - 1)
                       /\ GridGet(grid, x, y).value = GridGet(grid, tx, ty).value

\* a 5x5 rule150 grid has been returned, with the tips of two arms set and
\* a cell beside a tip clear
C1_Witness ==
    /\ pc = "returned"
    /\ rule = "rule150"
    /\ n.int = 3
    /\ Cell(2, 0)
    /\ Cell(0, 2)
    /\ ~Cell(4, 1)

\* C2: two runs of create_grid with the same seed (not None), the same rule
\* and the same n return grids with the same cells and the same seed,
\* whatever state the random source was in before each run.
C2_Reproducible ==
    (pc = "returned" /\ shown.valid /\ seed # None
        /\ shown.seed = seed /\ shown.rule = rule /\ shown.n = n) =>
        /\ grid.array = shown.grid.array
        /\ grid.seed = shown.grid.seed

\* a second randomized run with seed 400 has returned a grid in which the
\* rule was suppressed, and the renderer holds the grid of an earlier run
\* with the same seed, rule and n
C2_Witness ==
    /\ pc = "returned"
    /\ shown.valid
    /\ seed = PyInt(400)
    /\ rule = "rule150randomized"
    /\ n.int = 3
    /\ shown.seed = seed /\ shown.rule = rule /\ shown.n = n
    /\ rows[2] # <<TRUE, TRUE, TRUE>>

\* C3: for n <= 0, create_grid(n) fails with an InvalidWedgeSizeError
\* raised on validating the input, and returns no grid.
C3_InvalidWedgeSize ==
    (pc # "idle" /\ n # None /\ n.int <= 0) =>
        (pc = "failed" /\ error = "InvalidWedgeSizeError")

\* C4: Grid.get and Grid.set with a coordinate outside 0 <= x < width,
\* 0 <= y < height (negative ones included) fail, and change no cell.
C4_OutOfBounds ==
    (access.op # "none"
        /\ ~(0 <= access.x /\ access.x < grid.width
             /\ 0 <= access.y /\ access.y < grid.height)) =>
        (~access.ok /\ grid.array = access.before)

\* C5: with a count n, generate yields exactly n rows in all and then ends,
\* for every n; with n None it never ends.
C5_RowCount ==
    /\ (pc \in {"consuming", "exhausted"} /\ n # None) => Len(rows) <= n.int
    /\ (pc = "exhausted" /\ n # None) => Len(rows) = n.int
    /\ (pc \in {"consuming", "exhausted"} /\ n = None) => pc # "exhausted"

\* C6: the k-th row yielded (from 0) has length 2k+1, row 0 is [True], and
\* each later row is the rule applied to the len(previous)+2 windows of
\* width 3 of the previous row padded with two False cells on each side.
C6_RowLaw ==
    \A k \in 1..Len(rows) :
        /\ Len(rows[k]) = 2 * (k - 1) + 1
        /\ k = 1 => rows[k] = <<TRUE>>
        /\ k > 1 =>
              LET prev == rows[k - 1]
                  p == [m \in 1..(Len(prev) + 4) |->
                           IF m <= 2 \/ m > Len(prev) + 2 THEN FALSE
                           ELSE prev[m - 2]]
              IN  /\ Len(rows[k]) = Len(prev) + 2
                  /\ \A j \in 1..(Len(prev) + 2) :
                         LET w == <<p[j], p[j + 1], p[j + 2]>>
                         IN  IF rule = "rule150"
                             THEN rows[k][j] = Odd(w)
                             ELSE rows[k][j] => Odd(w)

\* four rows have been pulled from an unbounded randomized generator, the
\* last of length 7, with a cell the rule suppressed
C6_Witness ==
    /\ pc = "consuming"
    /\ n = None
    /\ rule = "rule150randomized"
    /\ Len(rows) = 4
    /\ Len(rows[4]) = 7
    /\ rows[2] # <<TRUE, TRUE, TRUE>>

\* C7: rule150 of a triple of booleans is true exactly when an odd number
\* of its cells are true.
C7_Parity == call.fn = "rule150" => (call.result = Odd(call.above))

\* rule150 has been called on three true cells and answered true
C7_Witness ==
    /\ call.fn = "rule150"
    /\ call.above = <<TRUE, TRUE, TRUE>>
    /\ call.result

\* C8: rule150randomized answers false without a draw when rule150 is
\* false; when rule150 is true it takes one draw and answers false for
\* exactly 1 of 2000 equally likely draw values.
C8_Suppression ==
    call.fn = "rule150randomized" =>
        IF Odd(call.above)
        THEN /\ call.draws = 1
             /\ call.draw \in call.values
             /\ Cardinality(call.values) = 2000
             /\ Cardinality({d \in call.values : d = 0}) = 1
             /\ call.result = (call.draw # 0)
        ELSE call.result = FALSE /\ call.draws = 0

\* the k-th rotation of active cell j of row i0 has been written
Written(i0, j, k) ==
    \/ pc = "returned"
    \/ i0 < Len(rows) - 1
    \/ i0 = Len(rows) - 1 /\ (j < i \/ (j = i /\ k < rot))

\* C9: for n >= 1 and every rule, a cell (x, y) of the returned grid is true
\* exactly when some active cell j of some row i of the n generated rows
\* has (x, y) among (cx+rawX, cy+rawY), (cx-rawX, cy-rawY),
\* (cx-rawY, cy+rawX), (cx+rawY, cy-rawX), rawX = i, rawY = j - i; while the
\* grid is filled a cell is true exactly when a write made so far set it,
\* so no write clears a cell; n = 1 gives one true cell.
C9_CellsFromRows ==
    (Assembling /\ pc # "failed" /\ n.int >= 1) =>
        LET size == 2 * n.int - 1
            cx == grid.center[1]
            cy == grid.center[2]
        IN  /\ pc = "returned" => Len(rows) = n.int
            /\ \A x \in 0..(size - 1), y \in 0..(size - 1) :
                   Cell(x, y) <=>
                       \E i0 \in 0..(Len(rows) - 1) :
                           \E j \in 0..(Len(rows[i0 + 1]) - 1) :
                               LET rawX == i0
                                   rawY == j - i0
                               IN  /\ rows[i0 + 1][j + 1]
                                   /\ \/ Written(i0, j, 0)
                                         /\ <<x, y>> = <<cx + rawX, cy + rawY>>
                                      \/ Written(i0, j, 1)
                                         /\ <<x, y>> = <<cx - rawX, cy - rawY>>
                                      \/ Written(i0, j, 2)
                                         /\ <<x, y>> = <<cx - rawY, cy + rawX>>
                                      \/ Written(i0, j, 3)
                                         /\ <<x, y>> = <<cx + rawY, cy - rawX>>
            /\ (pc = "returned" /\ n.int = 1) => grid.array = << <<TRUE>> >>

\* a randomized 5x5 grid has been returned whose wedge is not symmetric:
\* cell 0 of row 1 was suppressed, so the tip of the arm is clear and the
\* cell beside it is set
C9_Witness ==
    /\ pc = "returned"
    /\ rule = "rule150randomized"
    /\ n.int = 3
    /\ rows[2] = <<FALSE, TRUE, TRUE>>
    /\ rows[3] = <<FALSE, TRUE, FALSE, FALSE, TRUE>>
    /\ Cell(4, 1)
    /\ ~Cell(4, 2)

\* C10: for n >= 1 and every rule, each grid.set call of create_grid(n) is
\* given 0 <= x < 2n-1 and 0 <= y < 2n-1: no write fails and none uses a
\* negative index.
C10_WritesInRange ==
    (Assembling /\ n.int >= 1 /\ last_set.calls > 0) =>
        /\ 0 <= last_set.x /\ last_set.x < 2 * n.int - 1
        /\ 0 <= last_set.y /\ last_set.y < 2 * n.int - 1
        /\ error # "IndexError"

\* a write of create_grid(3) has reached the corner (4, 0) of the 5x5 grid
C10_Witness ==
    /\ pc = "loop"
    /\ n.int = 3
    /\ last_set.calls > 0
    /\ last_set.x = 4
    /\ last_set.y = 0

====
